---- MODULE Spec2Model ----
(***************************************************************************)
(* A model of the JFFS2 image reader of jffs2-rs (src/src/lib.rs):         *)
(* the node scanner with its dirent and inode parsers, the path resolver,  *)
(* the fragment reassembler with the NONE, ZERO and RTIME decoders, and    *)
(* the two facade operations, entries and dump.                            *)
(*                                                                         *)
(* An image is a sequence of bytes (0..255); offsets are 0-based as in the *)
(* source, so byte k of a buffer b is b[k + 1].                            *)
(***************************************************************************)
EXTENDS Integers, Sequences, FiniteSets, TLC

VARIABLES
    buffer,          \* Jffs2Reader.buffer: the image bytes
    little_endian,   \* Jffs2Reader.little_endian
    dirents,         \* Jffs2Reader.dirents: ino -> Jffs2Dirent
    inodes,          \* Jffs2Reader.inodes: ino -> sequence of Jffs2Inode
    idx,             \* scan: the cursor
    pc,              \* where the reader is: "scan", "scanned", "facade", "resolve", "done"
    overflow_checks, \* build profile: TRUE when u32 overflow panics (debug), FALSE when it wraps
    image,           \* history: the nodes the image was assembled from
    seen,            \* history: the dirents scan_dirent has parsed so far, in image order
    last,            \* history: the header scan examined in its latest iteration
    op,              \* facade: "dump" or "entries"
    keys,            \* facade: the dirent keys the for loop has not visited yet
    jffs2_entries,   \* entries: the local list being built
    sink,            \* dump: what has been written below the target directory
    result,          \* what the running operation returned, "none" while it runs
    visited,         \* history: the keys the facade loop has visited, with the outcome
    rd               \* resolve_dirent: the locals of the call being stepped

vars == <<buffer, little_endian, dirents, inodes, idx, pc, overflow_checks,
          image, seen, last, op, keys, jffs2_entries, sink, result, visited, rd>>

(***************************************************************************)
(* Program constants.                                                      *)
(***************************************************************************)
JFFS2_MAGIC == 6533                 \* 0x1985
JFFS2_MAGIC_SWAPPED == 34073        \* 0x8519
JFFS2_NODETYPE_DIRENT == 57345      \* 0xE001
JFFS2_NODETYPE_INODE == 57346       \* 0xE002
DT_DIR == 4
DT_REG == 8
JFFS2_COMPR_NONE == 0
JFFS2_COMPR_ZERO == 1
JFFS2_COMPR_RTIME == 2
JFFS2_COMPR_RUBINMIPS == 3
JFFS2_COMPR_COPY == 4
JFFS2_COMPR_DYNRUBIN == 5
JFFS2_COMPR_ZLIB == 6
JFFS2_COMPR_LZO == 7
JFFS2_COMPR_LZMA == 8
SIZE_OF_DIRENT == 28
SIZE_OF_INODE == 56
HEADER_SIZE == 12
ROOT_INO == 1
RESOLVE_DEPTH == 32

Byte == 0..255

(***************************************************************************)
(* Sequence helpers.                                                       *)
(***************************************************************************)
Slice(b, from, to) == SubSeq(b, from + 1, to)

Fill(n, v) == [i \in 1..n |-> v]

RECURSIVE Flatten(_)
Flatten(ss) == IF ss = <<>> THEN <<>> ELSE Head(ss) \o Flatten(Tail(ss))

EmptyMap == [k \in {} |-> 0]

MapPut(m, k, v) == [x \in (DOMAIN m) \cup {k} |-> IF x = k THEN v ELSE m[x]]

(***************************************************************************)
(* Integer readers.  A Result is [ok |-> TRUE, val |-> v] or               *)
(* [ok |-> FALSE].                                                         *)
(***************************************************************************)
Ok(v) == [ok |-> TRUE, val |-> v]
Err == [ok |-> FALSE]

from_le_bytes(bs) ==
    IF Len(bs) = 2 THEN bs[1] + 256 * bs[2]
    ELSE bs[1] + 256 * bs[2] + 65536 * bs[3] + 16777216 * bs[4]

from_be_bytes(bs) ==
    IF Len(bs) = 2 THEN bs[2] + 256 * bs[1]
    ELSE bs[4] + 256 * bs[3] + 65536 * bs[2] + 16777216 * bs[1]

read_uint32(buf, le, offset) ==
    IF offset + 4 > Len(buf) THEN Err
    ELSE Ok(IF le THEN from_le_bytes(Slice(buf, offset, offset + 4))
                  ELSE from_be_bytes(Slice(buf, offset, offset + 4)))

read_uint16(buf, le, offset) ==
    IF offset + 2 > Len(buf) THEN Err
    ELSE Ok(IF le THEN from_le_bytes(Slice(buf, offset, offset + 2))
                  ELSE from_be_bytes(Slice(buf, offset, offset + 2)))

\* <(..)>::unpack_from_le: the fixed prefixes are always decoded little-endian
unpack_u32_le(mm, offset) == from_le_bytes(Slice(mm, offset, offset + 4))

(***************************************************************************)
(* String::from_utf8: whether a byte sequence is well-formed UTF-8.        *)
(***************************************************************************)
IsCont(b) == b >= 128 /\ b <= 191

RECURSIVE IsUtf8(_)
IsUtf8(bs) ==
    IF bs = <<>> THEN TRUE
    ELSE LET b == bs[1]
             n == Len(bs)
         IN  IF b < 128 THEN IsUtf8(Tail(bs))
             ELSE IF b >= 194 /\ b <= 223
                  THEN n >= 2 /\ IsCont(bs[2]) /\ IsUtf8(SubSeq(bs, 3, n))
             ELSE IF b >= 224 /\ b <= 239
                  THEN /\ n >= 3
                       /\ IsCont(bs[2]) /\ IsCont(bs[3])
                       /\ (b = 224 => bs[2] >= 160)
                       /\ (b = 237 => bs[2] <= 159)
                       /\ IsUtf8(SubSeq(bs, 4, n))
             ELSE IF b >= 240 /\ b <= 244
                  THEN /\ n >= 4
                       /\ IsCont(bs[2]) /\ IsCont(bs[3]) /\ IsCont(bs[4])
                       /\ (b = 240 => bs[2] >= 144)
                       /\ (b = 244 => bs[2] <= 143)
                       /\ IsUtf8(SubSeq(bs, 5, n))
             ELSE FALSE

RECURSIVE TakeWhileNonZero(_)
TakeWhileNonZero(bs) ==
    IF bs = <<>> \/ Head(bs) = 0 THEN <<>>
    ELSE <<Head(bs)>> \o TakeWhileNonZero(Tail(bs))

\* at most `length` bytes from `offset`, cut at the first NUL
read_str(buf, offset, length) ==
    IF offset >= Len(buf) THEN Err
    ELSE LET upto == IF offset + length > Len(buf) THEN Len(buf) ELSE offset + length
             str_bytes == TakeWhileNonZero(Slice(buf, offset, upto))
         IN  IF IsUtf8(str_bytes) THEN Ok(str_bytes) ELSE Err

(***************************************************************************)
(* The dirent parser.  mm is the node's payload, the bytes after the       *)
(* 12-byte header.  ret is the Result<bool> of the source: "true",         *)
(* "false" or "err".                                                       *)
(***************************************************************************)
dirent_fields(mm) ==
    [pino    |-> unpack_u32_le(mm, 0),
     version |-> unpack_u32_le(mm, 4),
     ino     |-> unpack_u32_le(mm, 8),
     mctime  |-> unpack_u32_le(mm, 12),
     nsize   |-> mm[17],
     ntype   |-> mm[18]]

\* variant: an equal version supersedes too
dirent_superseded_ge(ds, ino, version) ==
    ino \in DOMAIN ds /\ ds[ino].version >= version

\* lines 310-314: the record the table holds is newer than the one parsed
dirent_superseded(ds, ino, version) ==
    ino \in DOMAIN ds /\ ds[ino].version > version

scan_dirent(ds, mm) ==
    IF Len(mm) < SIZE_OF_DIRENT THEN [ret |-> "false", dirents |-> ds]
    ELSE LET f == dirent_fields(mm)
         IN  IF f.nsize + SIZE_OF_DIRENT > Len(mm)
             THEN [ret |-> "err", dirents |-> ds]
             ELSE IF dirent_superseded(ds, f.ino, f.version)
             THEN [ret |-> "true", dirents |-> ds]
             ELSE LET fname == read_str(mm, SIZE_OF_DIRENT, f.nsize)
                  IN  IF ~fname.ok THEN [ret |-> "err", dirents |-> ds]
                      ELSE [ret |-> "true",
                            dirents |-> MapPut(ds, f.ino,
                                [pino |-> f.pino, version |-> f.version,
                                 mctime |-> f.mctime, ntype |-> f.ntype,
                                 fname |-> fname.val])]

(***************************************************************************)
(* The inode parser.  at is the offset of the payload in the image.        *)
(***************************************************************************)
inode_fields(mm) ==
    [ino     |-> unpack_u32_le(mm, 0),
     version |-> unpack_u32_le(mm, 4),
     isize   |-> unpack_u32_le(mm, 16),
     mtime   |-> unpack_u32_le(mm, 24),
     foffset |-> unpack_u32_le(mm, 32),
     csize   |-> unpack_u32_le(mm, 36),
     dsize   |-> unpack_u32_le(mm, 40),
     compr   |-> mm[45]]

\* lines 349-355: some fragment at the same offset is strictly newer
inode_superseded(ins, ino, version, foffset) ==
    /\ ino \in DOMAIN ins
    /\ \E k \in 1..Len(ins[ino]) :
          ins[ino][k].version > version /\ foffset = ins[ino][k].offset

scan_inode(ins, mm, at) ==
    IF Len(mm) < SIZE_OF_INODE THEN [ret |-> "false", inodes |-> ins]
    ELSE LET f == inode_fields(mm)
             new_node == [version |-> f.version, iszie |-> f.isize,
                          mtime |-> f.mtime, offset |-> f.foffset,
                          csize |-> f.csize, dsize |-> f.dsize,
                          compr |-> f.compr, data |-> at + SIZE_OF_INODE]
         IN  IF f.csize + SIZE_OF_INODE > Len(mm)
             THEN [ret |-> "err", inodes |-> ins]
             ELSE IF inode_superseded(ins, f.ino, f.version, f.foffset)
             THEN [ret |-> "true", inodes |-> ins]
             ELSE [ret |-> "true",
                   inodes |-> MapPut(ins, f.ino,
                       IF f.ino \in DOMAIN ins THEN Append(ins[f.ino], new_node)
                       ELSE <<new_node>>)]

pad(x) == IF x % 4 # 0 THEN x + (4 - (x % 4)) ELSE x

(***************************************************************************)
(* One iteration of scan's while loop, as a function of the reader r       *)
(* (buffer, little_endian, overflow_checks, idx, dirents, inodes).  The    *)
(* value names the branch taken, the reader's next idx and tables, where   *)
(* scan is afterwards (pc: "scan" while it loops, "scanned" after          *)
(* Ok(()), "error" after an Err, "panic" after a panic), and the header    *)
(* examined (hdr).                                                         *)
(***************************************************************************)
NoHdr == [start |-> 0, nodetype |-> 0, totlen |-> 0, passed |-> FALSE]

\* line 431 reached after a node of neither type: idx was not moved back
other_advance(start, totlen) == start + HEADER_SIZE + pad(totlen)

\* line 415: the stop check; idx is already past the header
stop_check(totlen, maxmm, idx_after) == totlen > maxmm - idx_after \/ totlen = 0

\* line 394: idx < maxmm - 12 in u32.  When maxmm < 12 and the subtraction
\* wraps, the right-hand side is 2^32 - (12 - maxmm), which no idx of the
\* model reaches (idx stays within 4 of the image length, far below 2^31).
loop_guard(i, maxmm) ==
    IF maxmm < HEADER_SIZE THEN TRUE ELSE i < maxmm - HEADER_SIZE

scan_iter(r) ==
    LET maxmm == Len(r.buffer)
        wraps == maxmm < HEADER_SIZE
        out(br, p, i, ds, ins, h) ==
            [branch |-> br, pc |-> p, idx |-> i, dirents |-> ds, inodes |-> ins, hdr |-> h]
        keep(br, p, i) == out(br, p, i, r.dirents, r.inodes, NoHdr)
        magic == read_uint16(r.buffer, r.little_endian, r.idx)
        nodetype == read_uint16(r.buffer, r.little_endian, r.idx + 2)
        totlen == read_uint32(r.buffer, r.little_endian, r.idx + 4)
        hdr_crc == read_uint32(r.buffer, r.little_endian, r.idx + 8)
    IN  IF wraps /\ r.overflow_checks THEN keep("fail", "panic", r.idx)
        ELSE IF ~loop_guard(r.idx, maxmm) THEN keep("exit", "scanned", r.idx)
        ELSE IF ~magic.ok THEN keep("fail", "error", r.idx)
        ELSE IF magic.val # JFFS2_MAGIC THEN keep("resync", "scan", r.idx + 4)
        ELSE IF ~nodetype.ok THEN keep("fail", "error", r.idx + 2)
        ELSE IF ~totlen.ok THEN keep("fail", "error", r.idx + 4)
        ELSE IF ~hdr_crc.ok THEN keep("fail", "error", r.idx + 8)
        ELSE
        LET h == [start |-> r.idx, nodetype |-> nodetype.val,
                  totlen |-> totlen.val, passed |-> TRUE]
            after == r.idx + HEADER_SIZE
        IN  IF stop_check(totlen.val, maxmm, after)
            THEN out("stop", "scanned", after, r.dirents, r.inodes,
                     [h EXCEPT !.passed = FALSE])
            ELSE IF nodetype.val = JFFS2_NODETYPE_DIRENT
            THEN IF r.idx + HEADER_SIZE > r.idx + totlen.val
                 THEN out("fail", "panic", r.idx, r.dirents, r.inodes, h)
                 ELSE LET res == scan_dirent(r.dirents,
                                     Slice(r.buffer, r.idx + HEADER_SIZE, r.idx + totlen.val))
                      IN  IF res.ret = "err"
                          THEN out("fail", "error", r.idx, r.dirents, r.inodes, h)
                          ELSE out("dirent", "scan", r.idx + pad(totlen.val),
                                   res.dirents, r.inodes, h)
            ELSE IF nodetype.val = JFFS2_NODETYPE_INODE
            THEN IF r.idx + HEADER_SIZE > r.idx + totlen.val
                 THEN out("fail", "panic", r.idx, r.dirents, r.inodes, h)
                 ELSE LET res == scan_inode(r.inodes,
                                     Slice(r.buffer, r.idx + HEADER_SIZE, r.idx + totlen.val),
                                     r.idx + HEADER_SIZE)
                      IN  IF res.ret = "err"
                          THEN out("fail", "error", r.idx, r.dirents, r.inodes, h)
                          ELSE out("inode", "scan", r.idx + pad(totlen.val),
                                   r.dirents, res.inodes, h)
            ELSE out("other", "scan", other_advance(r.idx, totlen.val),
                     r.dirents, r.inodes, h)

\* Jffs2Reader::new: the image is at least two bytes and starts with a magic
new_ok(buf) ==
    /\ Len(buf) >= 2
    /\ read_uint16(Slice(buf, 0, 2), TRUE, 0).val \in {JFFS2_MAGIC, JFFS2_MAGIC_SWAPPED}

new_little_endian(buf) == read_uint16(Slice(buf, 0, 2), TRUE, 0).val = JFFS2_MAGIC

new_reader(buf, oc) ==
    [buffer |-> buf, little_endian |-> new_little_endian(buf), overflow_checks |-> oc,
     idx |-> 0, dirents |-> EmptyMap, inodes |-> EmptyMap]

\* scan run to its end on a reader: the tables and how it ended
RECURSIVE scan_run(_)
scan_run(r) ==
    LET n == scan_iter(r)
    IN  IF n.pc = "scan"
        THEN scan_run([r EXCEPT !.idx = n.idx, !.dirents = n.dirents, !.inodes = n.inodes])
        ELSE [pc |-> n.pc, idx |-> n.idx, dirents |-> n.dirents, inodes |-> n.inodes]

(***************************************************************************)
(* Paths.  A path is the byte string of a PathBuf.  Components is          *)
(* Path::components on Unix: a leading separator is the root, a leading    *)
(* "." is the current directory, every other "." and every empty piece     *)
(* between separators is dropped, ".." is the parent directory.  A         *)
(* component is named by its bytes: "/" for the root, "." , ".." or the    *)
(* name.                                                                   *)
(***************************************************************************)
SEP == 47
DOT == 46
RootDir == <<SEP>>
CurDir == <<DOT>>
ParentDir == <<DOT, DOT>>

RECURSIVE SplitSep(_, _)
\* the pieces of bs between separators; cur is the piece being read
SplitSep(bs, cur) ==
    IF bs = <<>> THEN <<cur>>
    ELSE IF Head(bs) = SEP THEN <<cur>> \o SplitSep(Tail(bs), <<>>)
    ELSE SplitSep(Tail(bs), Append(cur, Head(bs)))

Components(p) ==
    IF p = <<>> THEN <<>>
    ELSE LET pieces == SplitSep(p, <<>>)
             has_root == p[1] = SEP
             named(c) == c # <<>> /\ c # CurDir
             rest == SelectSeq(pieces, named)
         IN  (IF has_root THEN <<RootDir>>
              ELSE IF pieces[1] = CurDir THEN <<CurDir>> ELSE <<>>) \o rest

is_absolute(p) == p # <<>> /\ p[1] = SEP

\* PathBuf::push
push(self, path) ==
    IF is_absolute(path) THEN path
    ELSE IF self # <<>> /\ self[Len(self)] # SEP THEN self \o <<SEP>> \o path
    ELSE self \o path

\* Path::join
join(self, path) == push(self, path)

RECURSIVE collect(_)
\* components.into_iter().collect::<PathBuf>()
collect(cs) ==
    IF cs = <<>> THEN <<>> ELSE push(collect(SubSeq(cs, 1, Len(cs) - 1)), cs[Len(cs)])

RECURSIVE lexiclean_fold(_, _)
\* the loop of lexiclean over the components that are not CurDir
lexiclean_fold(cs, acc) ==
    IF cs = <<>> THEN acc
    ELSE LET c == Head(cs)
         IN  IF c = ParentDir
             THEN IF acc = <<>> \/ acc[Len(acc)] = ParentDir
                  THEN lexiclean_fold(Tail(cs), Append(acc, c))
                  ELSE IF acc[Len(acc)] = RootDir
                  THEN lexiclean_fold(Tail(cs), acc)
                  ELSE lexiclean_fold(Tail(cs), SubSeq(acc, 1, Len(acc) - 1))
             ELSE lexiclean_fold(Tail(cs), Append(acc, c))

\* Lexiclean::lexiclean, the lexical normaliser resolve_dirent calls
lexiclean(p) ==
    IF Len(Components(p)) <= 1 THEN p
    ELSE LET not_cur(c) == c # CurDir
         IN  collect(lexiclean_fold(SelectSeq(Components(p), not_cur), <<>>))

\* JffsPathFixer::jffs_fix
jffs_fix(p) ==
    LET cs == Components(p)
        ignore_last == cs # <<>> /\ cs[Len(cs)] = <<>>
    IN  IF Len(cs) <= 1 THEN p
        ELSE collect(IF ignore_last THEN SubSeq(cs, 1, Len(cs) - 1) ELSE cs)

(***************************************************************************)
(* resolve_dirent.  The locals of a call are a record: node, i (the        *)
(* iterations of the for loop completed), path, cnode, ntype, and ret:     *)
(* "loop" while the call runs, "ok" with the path returned in out, or the  *)
(* error it bailed with ("unresolved": no dirent for the node or for a     *)
(* parent; "cycle": the 32 iterations ran out).                            *)
(***************************************************************************)
resolve_begin(ds, node) ==
    IF node \in DOMAIN ds
    THEN [node |-> node, i |-> 0, path |-> <<>>, cnode |-> ds[node],
          ntype |-> ds[node].ntype, ret |-> "loop", out |-> <<>>, examined |-> 0]
    ELSE [node |-> node, i |-> 0, path |-> <<>>, cnode |-> <<>>,
          ntype |-> 0, ret |-> "unresolved", out |-> <<>>, examined |-> 0]

\* variant: one iteration more
resolve_more_inclusive(i) == i <= RESOLVE_DEPTH

\* line 594: for _i in 0..32
resolve_more(i) == i < RESOLVE_DEPTH

\* one iteration of the for loop (or its end)
resolve_iter(ds, st) ==
    IF ~resolve_more(st.i) THEN [st EXCEPT !.ret = "cycle"]
    ELSE IF st.cnode.pino = ROOT_INO
    THEN [st EXCEPT !.ret = "ok",
                    !.examined = @ + 1,
                    !.out = jffs_fix(lexiclean(join(st.cnode.fname, st.path)))]
    ELSE IF st.cnode.pino \in DOMAIN ds
    THEN [st EXCEPT !.i = @ + 1,
                    !.examined = @ + 1,
                    !.path = join(st.cnode.fname, st.path),
                    !.cnode = ds[st.cnode.pino]]
    ELSE [st EXCEPT !.ret = "unresolved",
                    !.examined = @ + 1,
                    !.path = join(st.cnode.fname, st.path)]

RECURSIVE resolve_run(_, _)
resolve_run(ds, st) ==
    IF st.ret # "loop" THEN st ELSE resolve_run(ds, resolve_iter(ds, st))

resolve_dirent(ds, node) == resolve_run(ds, resolve_begin(ds, node))

(***************************************************************************)
(* The decoders and dump_file.                                             *)
(***************************************************************************)
RECURSIVE rtime_copy(_, _, _)
\* lines 457-461: the byte-by-byte copy of a run that overlaps its output
rtime_copy(dst, backoffs, repeat) ==
    IF repeat = 0 THEN dst
    ELSE rtime_copy(Append(dst, dst[backoffs + 1]), backoffs + 1, repeat - 1)

RECURSIVE rtime_loop(_, _, _, _, _)
rtime_loop(cb, dstlen, dst, pos, position) ==
    IF ~(Len(dst) < dstlen) THEN Ok(dst)
    ELSE IF pos + 2 > Len(cb) THEN Err    \* a slice index past the input panics
    ELSE LET val == cb[pos + 1]
             repeat == cb[pos + 2]
             dst1 == Append(dst, val)
             backoffs == position[val]
             position1 == [position EXCEPT ![val] = Len(dst1)]
             dst2 == IF repeat = 0 THEN dst1
                     ELSE IF backoffs + repeat >= Len(dst1)
                          THEN rtime_copy(dst1, backoffs, repeat)
                          ELSE dst1 \o Slice(dst1, backoffs, backoffs + repeat)
         IN  rtime_loop(cb, dstlen, dst2, pos + 2, position1)

rtime_decompress(compressed_buffer, dstlen) ==
    rtime_loop(compressed_buffer, dstlen, <<>>, 0, [b \in Byte |-> 0])

RECURSIVE insert_by_offset(_, _)
insert_by_offset(sorted, x) ==
    IF sorted = <<>> THEN <<x>>
    ELSE IF x.offset < Head(sorted).offset THEN <<x>> \o sorted
    ELSE <<Head(sorted)>> \o insert_by_offset(Tail(sorted), x)

RECURSIVE sort_by_offset(_)
\* sort_by_key(|k| k.offset): a stable sort
sort_by_offset(frags) ==
    IF frags = <<>> THEN <<>>
    ELSE insert_by_offset(sort_by_offset(SubSeq(frags, 1, Len(frags) - 1)),
                          frags[Len(frags)])

\* What the decoders outside this repository (zlib, LZMA, LZO, dynrubin) do
\* with a fragment is not modelled: ext is the outcome the environment picks,
\* "exact" (dsize bytes), "short" (fewer) or "fail" (the decoder returns Err).
ExtOutcomes == {"exact", "short", "fail"}

UNKNOWN_BYTE == 63

\* the bytes NONE writes: the csize compressed bytes
none_output(buf, inode) == Slice(buf, inode.data, inode.data + inode.csize)

\* variant: a tag without a decoder is copied like NONE
unsupported_as_copy(buf, inode, ext) == [ret |-> "ok", bytes |-> none_output(buf, inode)]

\* the branches of dump_file's loop for a codec tag that has no decoder
unsupported(buf, inode, ext) == [ret |-> "unsupported", bytes |-> <<>>]

\* one iteration of the loop of dump_file: the result and the bytes written
decode_fragment(buf, inode, ext) ==
    LET input == Slice(buf, inode.data, inode.data + inode.csize)
        wrote(bs) == [ret |-> "ok", bytes |-> bs]
        failed(e) == [ret |-> e, bytes |-> <<>>]
        guess == IF ext = "short" /\ inode.dsize > 0
                 THEN Fill(inode.dsize - 1, UNKNOWN_BYTE)
                 ELSE Fill(inode.dsize, UNKNOWN_BYTE)
    IN  IF inode.compr = JFFS2_COMPR_NONE THEN wrote(none_output(buf, inode))
        ELSE IF inode.compr = JFFS2_COMPR_ZERO THEN wrote(Fill(inode.dsize, 0))
        ELSE IF inode.compr = JFFS2_COMPR_ZLIB
        THEN IF ext = "fail" THEN failed("codec") ELSE wrote(guess)
        ELSE IF inode.compr = JFFS2_COMPR_RTIME
        THEN LET buf2 == rtime_decompress(input, inode.dsize)
             IN  IF buf2.ok THEN wrote(buf2.val) ELSE failed("panic")
        ELSE IF inode.compr = JFFS2_COMPR_LZO THEN wrote(Fill(inode.dsize, UNKNOWN_BYTE))
        ELSE IF inode.compr = JFFS2_COMPR_LZMA
        THEN IF ext = "fail" THEN failed("codec") ELSE wrote(guess)
        ELSE IF inode.compr = JFFS2_COMPR_DYNRUBIN
        THEN wrote(Fill(inode.dsize, UNKNOWN_BYTE))
        ELSE unsupported(buf, inode, ext)

(***************************************************************************)
(* The sink: what dump has done below the target directory.  dirs is the   *)
(* set of directories created, files maps a file to its bytes, and log is  *)
(* the sequence of write_all calls (file, inode number, fragment, bytes).  A file or     *)
(* directory is named by the components of its path.                       *)
(***************************************************************************)
TARGET == <<116>>     \* the target directory handed to dump: "t"

Prefixes(cs) == {SubSeq(cs, 1, k) : k \in 1..Len(cs)}

\* Path::parent, by components
parent(p) ==
    LET cs == Components(p)
    IN  IF cs = <<>> \/ cs[Len(cs)] = RootDir THEN cs ELSE SubSeq(cs, 1, Len(cs) - 1)

\* std::fs::create_dir_all
create_dir_all(snk, cs) ==
    IF \E f \in DOMAIN snk.files : f \in Prefixes(cs)
    THEN [ret |-> "io", sink |-> snk]
    ELSE [ret |-> "ok", sink |-> [snk EXCEPT !.dirs = @ \cup Prefixes(cs)]]

\* File::create: fails on a directory; truncates an existing file
file_create(snk, cs) ==
    IF cs = <<>> \/ cs[Len(cs)] \in {RootDir, CurDir, ParentDir} \/ cs \in snk.dirs
    THEN [ret |-> "io", sink |-> snk]
    ELSE [ret |-> "ok", sink |-> [snk EXCEPT !.files = MapPut(@, cs, <<>>)]]

RECURSIVE write_fragments(_, _, _, _, _, _)
\* the for loop of dump_file over the sorted fragments
write_fragments(snk, buf, file, node, sorted, ext) ==
    IF sorted = <<>> THEN [ret |-> "ok", sink |-> snk]
    ELSE LET d == decode_fragment(buf, Head(sorted), ext)
         IN  IF d.ret # "ok" THEN [ret |-> d.ret, sink |-> snk]
             ELSE write_fragments(
                     [snk EXCEPT !.files[file] = @ \o d.bytes,
                                 !.log = Append(@, [file |-> file, ino |-> node,
                                                    frag |-> Head(sorted),
                                                    bytes |-> d.bytes])],
                     buf, file, node, Tail(sorted), ext)

dump_file(snk, buf, ins, output_path, node, ext) ==
    IF node \notin DOMAIN ins THEN [ret |-> "ok", sink |-> snk]
    ELSE LET sorted_inodes == sort_by_offset(ins[node])
             made == IF parent(output_path) \in snk.dirs
                     THEN [ret |-> "ok", sink |-> snk]
                     ELSE create_dir_all(snk, parent(output_path))
             file == Components(jffs_fix(output_path))
             created == file_create(made.sink, file)
         IN  IF made.ret # "ok" THEN made
             ELSE IF created.ret # "ok" THEN created
             ELSE write_fragments(created.sink, buf, file, node, sorted_inodes, ext)

(***************************************************************************)
(* The image format (the struct comments of Jffs2Dirent and Jffs2Inode and *)
(* the header reads of scan), used to assemble the images scan starts      *)
(* from.  An image is described by its nodes:                              *)
(*   dirent: pino, version, ino, ntype, name, slack (bytes of the node     *)
(*           after the name, inside totlen)                                *)
(*   inode:  ino, version, offset, csize, dsize, compr, data               *)
(*   hdr:    a header with any nodetype and totlen, and the bytes after it *)
(*   raw:    bytes that belong to no node                                  *)
(* Every integer of a header or of a fixed prefix is written in the        *)
(* image's byte order; a node is padded with 0xFF to a multiple of four.   *)
(***************************************************************************)
MaxNodes == 2      \* nodes of a scanned image
MaxVersion == 2    \* versions a node carries
MaxFrags == 2      \* inode nodes of an extracted file
MaxCut == 16       \* length of the longest truncated image
MaxCompr == 9      \* the greatest codec tag of a fragment

U16Bytes(x, le) ==
    IF le THEN <<x % 256, x \div 256>> ELSE <<x \div 256, x % 256>>

U32Bytes(x, le) ==
    LET b0 == x % 256
        b1 == (x \div 256) % 256
        b2 == (x \div 65536) % 256
        b3 == x \div 16777216
    IN  IF le THEN <<b0, b1, b2, b3>> ELSE <<b3, b2, b1, b0>>

PadTo4(bs) == bs \o Fill(pad(Len(bs)) - Len(bs), 255)

HeaderBytes(nodetype, totlen, le) ==
    U16Bytes(JFFS2_MAGIC, le) \o U16Bytes(nodetype, le)
        \o U32Bytes(totlen, le) \o U32Bytes(0, le)

NodeBytes(n, le) ==
    IF n.kind = "dirent"
    THEN PadTo4(
            HeaderBytes(JFFS2_NODETYPE_DIRENT,
                        HEADER_SIZE + SIZE_OF_DIRENT + Len(n.name) + n.slack, le)
            \o U32Bytes(n.pino, le) \o U32Bytes(n.version, le)
            \o U32Bytes(n.ino, le) \o U32Bytes(0, le)
            \o <<Len(n.name), n.ntype>> \o U16Bytes(0, le)
            \o U32Bytes(0, le) \o U32Bytes(0, le)
            \o n.name \o Fill(n.slack, 255))
    ELSE IF n.kind = "inode"
    THEN PadTo4(
            HeaderBytes(JFFS2_NODETYPE_INODE,
                        HEADER_SIZE + SIZE_OF_INODE + Len(n.data), le)
            \o U32Bytes(n.ino, le) \o U32Bytes(n.version, le)
            \o U32Bytes(33188, le) \o U16Bytes(0, le) \o U16Bytes(0, le)
            \o U32Bytes(n.dsize, le) \o U32Bytes(0, le)
            \o U32Bytes(0, le) \o U32Bytes(0, le)
            \o U32Bytes(n.offset, le) \o U32Bytes(n.csize, le)
            \o U32Bytes(n.dsize, le) \o <<n.compr, n.compr>> \o U16Bytes(0, le)
            \o U32Bytes(0, le) \o U32Bytes(0, le)
            \o n.data)
    ELSE IF n.kind = "hdr"
    THEN PadTo4(HeaderBytes(n.nodetype, n.totlen, le) \o n.body)
    ELSE n.bytes

RECURSIVE NodesBytes(_, _)
NodesBytes(ns, le) ==
    IF ns = <<>> THEN <<>> ELSE NodeBytes(Head(ns), le) \o NodesBytes(Tail(ns), le)

\* an image description: its nodes, its byte order, and where it is cut off
\* (cut = 0: not cut)
ImageBytes(img) ==
    LET all == NodesBytes(img.nodes, img.le)
    IN  IF img.cut = 0 THEN all ELSE SubSeq(all, 1, img.cut)

Dirent(ino, pino, version, ntype, name, slack) ==
    [kind |-> "dirent", ino |-> ino, pino |-> pino, version |-> version,
     ntype |-> ntype, name |-> name, slack |-> slack]

Inode(ino, version, offset, csize, dsize, compr, data) ==
    [kind |-> "inode", ino |-> ino, version |-> version, offset |-> offset,
     csize |-> csize, dsize |-> dsize, compr |-> compr, data |-> data]

Hdr(nodetype, totlen, body) ==
    [kind |-> "hdr", nodetype |-> nodetype, totlen |-> totlen, body |-> body]

Raw(bytes) == [kind |-> "raw", bytes |-> bytes]

CLEANMARKER == 8195   \* 0x2003, a node type scan ignores

SeqsUpTo(S, n) == UNION {[1..k -> S] : k \in 1..n}

\* the nodes of the scanned images
ScanPool ==
    {Dirent(2, ROOT_INO, v, DT_REG, <<96 + v>>, 0) : v \in 1..MaxVersion}
    \cup {Dirent(3, ROOT_INO, 1, DT_DIR, <<100>>, 0),
          Dirent(3, 5, 1, DT_DIR, <<101>>, 0),
          Dirent(4, ROOT_INO, 1, DT_DIR, <<>>, 0),
          Dirent(4, ROOT_INO, 1, DT_DIR, <<255>>, 0)}
    \cup {Inode(2, v, 0, 1, 1, JFFS2_COMPR_NONE, <<64 + v>>) : v \in 1..MaxVersion}
    \cup {Inode(2, 1, 1, 0, 2, JFFS2_COMPR_ZERO, <<>>),
          Hdr(CLEANMARKER, HEADER_SIZE, <<>>),
          Raw(Fill(4, 255))}

Tail12 == Raw(Fill(HEADER_SIZE, 255))

ScanImages ==
    {[nodes |-> ns \o t, le |-> le, cut |-> 0] :
        ns \in SeqsUpTo(ScanPool, MaxNodes), t \in {<<>>, <<Tail12>>}, le \in BOOLEAN}

\* images cut short: the first bytes of a one-dirent image
CutImages ==
    {[nodes |-> <<Dirent(2, ROOT_INO, 1, DT_REG, <<97>>, 0)>>, le |-> le, cut |-> c] :
        le \in BOOLEAN, c \in 2..MaxCut}

\* the inode nodes of the extracted files: every codec tag, streams that
\* decode to dsize bytes, to more and to fewer, some at a second offset, and
\* rewrites of offset 0 under a higher version
CodecPool ==
    {Inode(2, 1, 0, 2, 2, JFFS2_COMPR_NONE, <<65, 66>>),
     Inode(2, 1, 0, 3, 1, JFFS2_COMPR_NONE, <<65, 66, 67>>),
     Inode(2, 1, 0, 1, 2, JFFS2_COMPR_NONE, <<65>>),
     Inode(2, 1, 0, 0, 2, JFFS2_COMPR_ZERO, <<>>),
     Inode(2, 1, 0, 4, 2, JFFS2_COMPR_RTIME, <<65, 0, 66, 0>>),
     Inode(2, 1, 0, 2, 2, JFFS2_COMPR_RTIME, <<65, 3>>),
     Inode(2, 1, 0, 2, 2, JFFS2_COMPR_RTIME, <<65, 0>>),
     Inode(2, 1, 4, 2, 2, JFFS2_COMPR_NONE, <<67, 68>>),
     Inode(2, 1, 4, 1, 1, JFFS2_COMPR_RUBINMIPS, <<1>>)}
    \cup {Inode(2, 1, 0, 1, 1, c, <<1>>) : c \in JFFS2_COMPR_RUBINMIPS..MaxCompr}
    \cup {Inode(2, v, 0, 2, 2, JFFS2_COMPR_NONE, <<68 + v, 68 + v>>) : v \in 2..MaxVersion}

CodecImages ==
    {[nodes |-> <<Dirent(2, ROOT_INO, 1, DT_REG, <<102>>, 0)>> \o fs \o <<Tail12>>,
      le |-> TRUE, cut |-> 0] : fs \in SeqsUpTo(CodecPool, MaxFrags)}

\* a header whose totlen is shorter than a header, followed by twelve bytes
ShortImages ==
    {[nodes |-> <<Hdr(nt, t, <<>>), Tail12>>, le |-> le, cut |-> 0] :
        nt \in {JFFS2_NODETYPE_DIRENT, JFFS2_NODETYPE_INODE, CLEANMARKER},
        t \in 1..(HEADER_SIZE - 1), le \in BOOLEAN}

Images == ScanImages \cup CutImages \cup CodecImages \cup ShortImages

NoSink == [dirs |-> {}, files |-> EmptyMap, log |-> <<>>]
NoRd == [node |-> 0, i |-> 0, path |-> <<>>, cnode |-> <<>>,
         ntype |-> 0, ret |-> "none", out |-> <<>>, examined |-> 0]

Reader ==
    [buffer |-> buffer, little_endian |-> little_endian,
     overflow_checks |-> overflow_checks,
     idx |-> idx, dirents |-> dirents, inodes |-> inodes]

Init ==
    /\ image \in Images
    /\ buffer = ImageBytes(image)
    /\ new_ok(buffer)
    /\ little_endian = new_little_endian(buffer)
    /\ overflow_checks \in (IF Len(buffer) < HEADER_SIZE THEN BOOLEAN ELSE {FALSE})
    /\ dirents = EmptyMap
    /\ inodes = EmptyMap
    /\ idx = 0
    /\ pc = "scan"
    /\ seen = <<>>
    /\ last = NoHdr
    /\ op = "none"
    /\ keys = {}
    /\ jffs2_entries = <<>>
    /\ sink = NoSink
    /\ result = "none"
    /\ visited = <<>>
    /\ rd = NoRd

(***************************************************************************)
(* scan: one action per way an iteration of the while loop can go.         *)
(***************************************************************************)
ScanTo(n) ==
    /\ idx' = n.idx
    /\ dirents' = n.dirents
    /\ inodes' = n.inodes
    /\ last' = n.hdr
    /\ pc' = n.pc
    /\ result' = IF n.pc \in {"error", "panic"} THEN n.pc ELSE result
    /\ UNCHANGED <<buffer, little_endian, overflow_checks, image, op, keys,
                   jffs2_entries, sink, visited, rd>>

\* the loop condition fails: scan returns Ok(())
ScanExit ==
    /\ pc = "scan" /\ scan_iter(Reader).branch = "exit"
    /\ ScanTo(scan_iter(Reader)) /\ UNCHANGED seen

\* no magic at idx: idx += 4
ScanResync ==
    /\ pc = "scan" /\ scan_iter(Reader).branch = "resync"
    /\ ScanTo(scan_iter(Reader)) /\ UNCHANGED seen

\* the stop check breaks the loop: scan returns Ok(())
ScanStop ==
    /\ pc = "scan" /\ scan_iter(Reader).branch = "stop"
    /\ ScanTo(scan_iter(Reader)) /\ UNCHANGED seen

\* a dirent node: scan_dirent returned Ok
ScanDirent ==
    /\ pc = "scan" /\ scan_iter(Reader).branch = "dirent"
    /\ ScanTo(scan_iter(Reader))
    /\ LET mm == Slice(buffer, idx + HEADER_SIZE, idx + scan_iter(Reader).hdr.totlen)
       IN  seen' = IF Len(mm) < SIZE_OF_DIRENT THEN seen
                   ELSE Append(seen,
                          [ino |-> dirent_fields(mm).ino,
                           version |-> dirent_fields(mm).version,
                           pino |-> dirent_fields(mm).pino,
                           name |-> TakeWhileNonZero(
                                      Slice(mm, SIZE_OF_DIRENT,
                                            SIZE_OF_DIRENT + dirent_fields(mm).nsize))])

\* an inode node: scan_inode returned Ok
ScanInode ==
    /\ pc = "scan" /\ scan_iter(Reader).branch = "inode"
    /\ ScanTo(scan_iter(Reader)) /\ UNCHANGED seen

\* a node of another type
ScanOther ==
    /\ pc = "scan" /\ scan_iter(Reader).branch = "other"
    /\ ScanTo(scan_iter(Reader)) /\ UNCHANGED seen

\* a read or a parser returned Err, or the iteration panicked
ScanFail ==
    /\ pc = "scan" /\ scan_iter(Reader).branch = "fail"
    /\ ScanTo(scan_iter(Reader)) /\ UNCHANGED seen

(***************************************************************************)
(* The facade: extract_jffs2 and list_jffs2 call scan and then dump or     *)
(* entries.  Both loop over dirents.keys(), whose order a HashMap does not *)
(* fix: each iteration takes any key not visited yet.                      *)
(***************************************************************************)
ScanVars == <<buffer, little_endian, overflow_checks, dirents, inodes, idx,
              image, seen, last, rd>>

\* reader.dump(output) is called on the scanned reader
Dump ==
    /\ pc = "scanned"
    /\ pc' = "facade" /\ op' = "dump" /\ keys' = DOMAIN dirents
    /\ UNCHANGED <<ScanVars, jffs2_entries, sink, result, visited>>

\* reader.entries() is called on the scanned reader
Entries ==
    /\ pc = "scanned"
    /\ pc' = "facade" /\ op' = "entries" /\ keys' = DOMAIN dirents
    /\ UNCHANGED <<ScanVars, jffs2_entries, sink, result, visited>>

\* variant: the loop continues past a dirent that does not resolve
resolve_or_skip(r) == FALSE

\* the `?` after resolve_dirent in dump and entries: whether an Err of the
\* resolver ends the operation
resolve_or_return(r) == TRUE

\* the body of dump's loop for key i: the result and the sink afterwards
dump_body(snk, buf, ds, ins, i, ext) ==
    LET r == resolve_dirent(ds, i)
        output_path == join(TARGET, r.out)
    IN  IF r.ret # "ok"
        THEN IF resolve_or_return(r) THEN [ret |-> r.ret, sink |-> snk]
             ELSE [ret |-> "ok", sink |-> snk]
        ELSE IF r.ntype = DT_DIR THEN create_dir_all(snk, Components(output_path))
        ELSE IF r.ntype = DT_REG THEN dump_file(snk, buf, ins, output_path, i, ext)
        ELSE [ret |-> "ok", sink |-> snk]

\* one iteration of the loop of dump
DumpNext ==
    /\ pc = "facade" /\ op = "dump"
    /\ \E i \in keys, ext \in ExtOutcomes :
          LET b == dump_body(sink, buffer, dirents, inodes, i, ext)
          IN  /\ keys' = keys \ {i}
              /\ visited' = Append(visited, [ino |-> i, ret |-> b.ret,
                                              path |-> resolve_dirent(dirents, i).out])
              /\ sink' = b.sink
              /\ IF b.ret = "ok"
                 THEN UNCHANGED <<pc, result>>
                 ELSE pc' = "done" /\ result' = b.ret
    /\ UNCHANGED <<ScanVars, op, jffs2_entries>>

\* the body of entries' loop for key i: the result and the list afterwards
entries_body(list, ds, ins, i) ==
    LET r == resolve_dirent(ds, i)
    IN  IF r.ret # "ok"
        THEN IF resolve_or_return(r) THEN [ret |-> r.ret, list |-> <<>>]
             ELSE [ret |-> "ok", list |-> list]
        ELSE IF r.ntype = DT_DIR
        THEN [ret |-> "ok",
              list |-> Append(list, [inodes |-> <<>>, is_file |-> FALSE, path |-> r.out])]
        ELSE IF r.ntype = DT_REG
        THEN [ret |-> "ok",
              list |-> Append(list, [inodes |-> IF i \in DOMAIN ins THEN ins[i] ELSE <<>>,
                                     is_file |-> TRUE, path |-> r.out])]
        ELSE [ret |-> "ok", list |-> list]

\* one iteration of the loop of entries
EntriesNext ==
    /\ pc = "facade" /\ op = "entries"
    /\ \E i \in keys :
          LET b == entries_body(jffs2_entries, dirents, inodes, i)
          IN  /\ keys' = keys \ {i}
              /\ visited' = Append(visited, [ino |-> i, ret |-> b.ret,
                                              path |-> resolve_dirent(dirents, i).out])
              /\ jffs2_entries' = b.list
              /\ IF b.ret = "ok"
                 THEN UNCHANGED <<pc, result>>
                 ELSE pc' = "done" /\ result' = b.ret
    /\ UNCHANGED <<ScanVars, op, sink>>

\* the loop is over: Ok(()) from dump, Ok(jffs2_entries) from entries
FacadeReturn ==
    /\ pc = "facade" /\ keys = {}
    /\ pc' = "done" /\ result' = "ok"
    /\ UNCHANGED <<ScanVars, op, keys, jffs2_entries, sink, visited>>

Next ==
    \/ ScanExit
    \/ ScanResync
    \/ ScanStop
    \/ ScanDirent
    \/ ScanInode
    \/ ScanOther
    \/ ScanFail
    \/ Dump
    \/ Entries
    \/ DumpNext
    \/ EntriesNext
    \/ FacadeReturn

Spec == Init /\ [][Next]_vars

(***************************************************************************)
(* resolve_dirent step by step, on the tables scan leaves for images of    *)
(* two kinds: a chain of dirents, each the child of the next, whose last   *)
(* dirent is a child of the root, of a missing inode, of the first dirent  *)
(* or of itself; and a directory below the root with one child, under      *)
(* every pair of names.                                                    *)
(***************************************************************************)
MaxChain == 33     \* dirents of the longest chain
MaxNameLen == 2    \* bytes of the longest name

ChainEnds == {"root", "missing", "cycle", "self"}

\* dirent k of a chain of n has ino k + 1 and parent k + 2
ChainNodes(n, end) ==
    [k \in 1..n |->
        Dirent(k + 1,
               IF k < n THEN k + 2
               ELSE IF end = "root" THEN ROOT_INO
               ELSE IF end = "missing" THEN n + 5
               ELSE IF end = "cycle" THEN 2
               ELSE n + 1,
               1, DT_DIR, <<97>>, 0)]

ChainImages ==
    {[nodes |-> ChainNodes(n, end) \o <<Tail12>>, le |-> TRUE, cut |-> 0] :
        n \in 1..MaxChain, end \in ChainEnds}

\* names over "a", "." and "/", and the name that is empty once cut at its NUL
Names == UNION {[1..k -> {97, DOT, SEP}] : k \in 1..MaxNameLen} \cup {<<0>>}

NameImages ==
    {[nodes |-> <<Dirent(2, ROOT_INO, 1, DT_DIR, top, 0),
                  Dirent(3, 2, 1, DT_REG, sub, 0), Tail12>>,
      le |-> TRUE, cut |-> 0] : top \in Names, sub \in Names}

ResolveImages == ChainImages \cup NameImages

InitResolve ==
    /\ image \in ResolveImages
    /\ buffer = ImageBytes(image)
    /\ new_ok(buffer)
    /\ little_endian = new_little_endian(buffer)
    /\ overflow_checks = FALSE
    /\ LET s == scan_run(new_reader(buffer, FALSE))
       IN  /\ s.pc = "scanned"
           /\ dirents = s.dirents
           /\ inodes = s.inodes
           /\ idx = s.idx
    /\ pc = "resolve"
    /\ seen = <<>>
    /\ last = NoHdr
    /\ op = "none"
    /\ keys = {}
    /\ jffs2_entries = <<>>
    /\ sink = NoSink
    /\ result = "none"
    /\ visited = <<>>
    /\ \E node \in DOMAIN dirents : rd = resolve_begin(dirents, node)

ResolveTo(st) ==
    /\ rd' = st
    /\ pc' = IF st.ret = "loop" THEN "resolve" ELSE "done"
    /\ result' = IF st.ret = "loop" THEN result ELSE st.ret
    /\ UNCHANGED <<buffer, little_endian, overflow_checks, dirents, inodes, idx,
                   image, seen, last, op, keys, jffs2_entries, sink, visited>>

\* cnode.pino == 1: the path is returned
ResolveRoot ==
    /\ pc = "resolve" /\ rd.ret = "loop"
    /\ resolve_more(rd.i) /\ rd.cnode.pino = ROOT_INO
    /\ ResolveTo(resolve_iter(dirents, rd))

\* the parent has a dirent: climb to it
ResolveClimb ==
    /\ pc = "resolve" /\ rd.ret = "loop"
    /\ resolve_more(rd.i) /\ rd.cnode.pino # ROOT_INO /\ rd.cnode.pino \in DOMAIN dirents
    /\ ResolveTo(resolve_iter(dirents, rd))

\* the parent has no dirent: bail
ResolveMissing ==
    /\ pc = "resolve" /\ rd.ret = "loop"
    /\ resolve_more(rd.i) /\ rd.cnode.pino # ROOT_INO /\ rd.cnode.pino \notin DOMAIN dirents
    /\ ResolveTo(resolve_iter(dirents, rd))

\* the for loop ran out: bail
ResolveLimit ==
    /\ pc = "resolve" /\ rd.ret = "loop"
    /\ ~resolve_more(rd.i)
    /\ ResolveTo(resolve_iter(dirents, rd))

NextResolve ==
    \/ ResolveRoot
    \/ ResolveClimb
    \/ ResolveMissing
    \/ ResolveLimit

SpecResolve == InitResolve /\ [][NextResolve]_vars

(***************************************************************************)
(* Properties.                                                             *)
(***************************************************************************)
SeenOf(ino) == {k \in 1..Len(seen) : seen[k].ino = ino}

\* the last of the parsed dirents of ino that carry its highest version
LastBest(ino) ==
    CHOOSE k \in SeenOf(ino) :
        /\ \A j \in SeenOf(ino) : seen[j].version <= seen[k].version
        /\ \A j \in SeenOf(ino) : seen[j].version = seen[k].version => j <= k

\* C1: after scan has parsed any sequence of dirent nodes, the record the
\* dirent table holds for an inode number is the last-seen node among those
\* that carry the highest version seen for it (its version, parent and name),
\* whichever order the versions come in.
C1_VersionWins ==
    /\ DOMAIN dirents = {seen[k].ino : k \in 1..Len(seen)}
    /\ \A ino \in DOMAIN dirents :
          /\ dirents[ino].version = seen[LastBest(ino)].version
          /\ dirents[ino].pino = seen[LastBest(ino)].pino
          /\ dirents[ino].fname = seen[LastBest(ino)].name

\* C1 witness: the higher version of an inode came first in the image, the
\* lower one after it, and the table holds the higher version's name.
C1_Witness ==
    /\ pc = "scanned"
    /\ \E j, k \in 1..Len(seen) :
          /\ j < k
          /\ seen[j].ino = seen[k].ino
          /\ seen[j].version > seen[k].version
          /\ seen[j].name # seen[k].name
          /\ dirents[seen[j].ino].fname = seen[j].name

Twin == [image EXCEPT !.le = ~image.le]

\* C2: for a little-endian image, scanning the image with every header and
\* fixed-prefix integer byte-swapped leaves the same dirent table and the
\* same fragment table.
C2_EndiannessEquivalence ==
    (pc = "scanned" /\ little_endian /\ image.cut = 0)
        => LET t == scan_run(new_reader(ImageBytes(Twin), FALSE))
           IN  t.pc = "scanned" /\ t.dirents = dirents /\ t.inodes = inodes

\* images that encode a tree with the codec NONE and nothing after the last
\* node: a regular file below the root followed by its fragments in offset
\* order, each of csize = dsize bytes
TreeImage ==
    /\ image.le /\ image.cut = 0
    /\ image.nodes[1].kind = "dirent"
    /\ image.nodes[1].pino = ROOT_INO
    /\ image.nodes[1].ntype = DT_REG
    /\ IsUtf8(image.nodes[1].name) /\ image.nodes[1].name # <<>>
    /\ \A k \in 2..Len(image.nodes) :
          /\ image.nodes[k].kind = "inode"
          /\ image.nodes[k].ino = image.nodes[1].ino
          /\ image.nodes[k].compr = JFFS2_COMPR_NONE
          /\ image.nodes[k].csize = Len(image.nodes[k].data)
          /\ image.nodes[k].dsize = image.nodes[k].csize
          /\ k > 2 => image.nodes[k - 1].offset + image.nodes[k - 1].dsize
                        = image.nodes[k].offset
    /\ Len(image.nodes) >= 2 => image.nodes[2].offset = 0

TreeFileBytes ==
    Flatten([k \in 1..(Len(image.nodes) - 1) |-> image.nodes[k + 1].data])

\* C3: for an image that is the concatenation of the nodes of a tree, with
\* nothing after the last node, scan records every node and dump and entries
\* reproduce the tree: the file, at its path, with its bytes.
C3_RoundTrip ==
    (pc = "done" /\ op # "none" /\ TreeImage)
        => /\ result = "ok"
           /\ image.nodes[1].ino \in DOMAIN dirents
           /\ Len(image.nodes) >= 2
                => /\ image.nodes[1].ino \in DOMAIN inodes
                   /\ Len(inodes[image.nodes[1].ino]) = Len(image.nodes) - 1
           /\ op = "dump" /\ Len(image.nodes) >= 2
                => /\ DOMAIN sink.files = {<<TARGET, image.nodes[1].name>>}
                   /\ sink.files[<<TARGET, image.nodes[1].name>>] = TreeFileBytes
           /\ op = "entries"
                => /\ Len(jffs2_entries) = 1
                   /\ Components(jffs2_entries[1].path) = <<image.nodes[1].name>>

SafeComponents(p) ==
    /\ ~is_absolute(p)
    /\ \A k \in 1..Len(Components(p)) :
          Components(p)[k] \notin {RootDir, ParentDir, CurDir, <<>>}

\* C4: every path resolve_dirent returns is relative and has no component
\* that is "..", "." or empty, whatever the names on the parent chain.
C4_SafePath == rd.ret = "ok" => SafeComponents(rd.out)

\* C5: the fragment list of an inode never holds two fragments with the same
\* logical offset and the same version.
C5_NoDuplicateFragments ==
    \A ino \in DOMAIN inodes :
        \A j, k \in 1..Len(inodes[ino]) :
            (j < k) => ~(/\ inodes[ino][j].offset = inodes[ino][k].offset
                         /\ inodes[ino][j].version = inodes[ino][k].version)

RECURSIVE Dangling(_, _, _)
\* the parent chain of ino meets a parent without a dirent before it meets a
\* child of the root
Dangling(ds, ino, fuel) ==
    IF ds[ino].pino = ROOT_INO THEN FALSE
    ELSE IF ds[ino].pino \notin DOMAIN ds THEN TRUE
    ELSE IF fuel = 0 THEN FALSE
    ELSE Dangling(ds, ds[ino].pino, fuel - 1)

SomeDangling == \E ino \in DOMAIN dirents : Dangling(dirents, ino, Cardinality(DOMAIN dirents))

\* C6: when some dirent's parent chain meets a parent without a dirent,
\* entries and dump fail as a whole: the operation returns an error, entries
\* returns no list, and no key is visited after the one that failed.
C6_UnresolvedAborts ==
    /\ (pc = "done" /\ op # "none" /\ SomeDangling)
          => /\ result # "ok"
             /\ op = "entries" => jffs2_entries = <<>>
    /\ \A k \in 1..Len(visited) : visited[k].ret # "ok" => (k = Len(visited) /\ pc = "done")

\* C6 witness: dump met the dangling dirent after it had extracted another
\* one, and stopped with keys left unvisited or not.
C6_Witness ==
    /\ pc = "done" /\ op = "dump" /\ result = "unresolved"
    /\ Len(visited) = 2
    /\ visited[1].ret = "ok"
    /\ Dangling(dirents, visited[2].ino, Cardinality(DOMAIN dirents))

SupportedTags ==
    {JFFS2_COMPR_NONE, JFFS2_COMPR_ZERO, JFFS2_COMPR_RTIME, JFFS2_COMPR_DYNRUBIN,
     JFFS2_COMPR_ZLIB, JFFS2_COMPR_LZO, JFFS2_COMPR_LZMA}

LoggedFrags(ino) ==
    LET of(e) == e.ino = ino
        es == SelectSeq(sink.log, of)
    IN  [k \in 1..Len(es) |-> es[k].frag]

\* the fragments of ino in ascending offset order, image order among equals
Sorted(ino) == sort_by_offset(inodes[ino])

\* C7: when dump reaches, in ascending offset order, a fragment whose codec
\* tag is 3, 4 or above 8, it returns the unsupported-codec error, has written
\* the fragments before it and nothing of it or of a later fragment, and
\* visits no further dirent; a file whose tags are all among 0, 1, 2, 5, 6, 7
\* and 8 never gets that error.
C7_Unsupported ==
    /\ \A k \in 1..Len(sink.log) : sink.log[k].frag.compr \in SupportedTags
    /\ \A k \in 1..Len(visited) :
          LET v == visited[k]
              bad == {j \in 1..Len(Sorted(v.ino)) : Sorted(v.ino)[j].compr \notin SupportedTags}
          IN  (op = "dump" /\ dirents[v.ino].ntype = DT_REG /\ v.ino \in DOMAIN inodes)
              => /\ v.ret = "ok" => bad = {}
                 /\ v.ret = "unsupported"
                      => /\ bad # {}
                         /\ k = Len(visited) /\ pc = "done" /\ result = "unsupported"
                         /\ \E j \in bad :
                               /\ \A i \in bad : j <= i
                               /\ LoggedFrags(v.ino) = SubSeq(Sorted(v.ino), 1, j - 1)

\* C7 witness: a NONE fragment at offset 0 was written, then the RUBINMIPS
\* fragment at offset 4 ended the extraction.
C7_Witness ==
    /\ pc = "done" /\ result = "unsupported"
    /\ Len(sink.log) = 1
    /\ sink.log[1].frag.compr = JFFS2_COMPR_NONE
    /\ Len(inodes[sink.log[1].ino]) = 2

\* C8: after an iteration whose header passed the stop check, the cursor is
\* the node's start plus pad(totlen), whatever the node type.
C8_AdvanceByPad ==
    (pc = "scan" /\ last.passed) => idx = last.start + pad(last.totlen)

RECURSIVE SumDsize(_)
SumDsize(frags) ==
    IF frags = <<>> THEN 0 ELSE Head(frags).dsize + SumDsize(Tail(frags))

\* C9: a regular file whose fragments use the codecs NONE, ZERO and RTIME is
\* written with as many bytes as the dsize of its fragments add up to.
C9_WrittenEqualsDsize ==
    \A k \in 1..Len(visited) :
        LET v == visited[k]
            file == Components(jffs_fix(join(TARGET, v.path)))
        IN  (/\ op = "dump" /\ v.ret = "ok"
             /\ dirents[v.ino].ntype = DT_REG /\ v.ino \in DOMAIN inodes
             /\ \A j \in 1..Len(inodes[v.ino]) :
                   inodes[v.ino][j].compr \in
                       {JFFS2_COMPR_NONE, JFFS2_COMPR_ZERO, JFFS2_COMPR_RTIME})
            => Len(sink.files[file]) = SumDsize(inodes[v.ino])

RECURSIVE Ancestor(_, _, _)
\* the k-th dirent on the parent chain of ino (ino's own is the 0th), or 0
\* when the chain ends before it
Ancestor(ds, ino, k) ==
    IF ino \notin DOMAIN ds THEN 0
    ELSE IF k = 0 THEN ino
    ELSE IF ds[ino].pino = ROOT_INO THEN 0
    ELSE Ancestor(ds, ds[ino].pino, k - 1)

RootWithin(ds, ino, n) ==
    \E k \in 0..(n - 1) :
        Ancestor(ds, ino, k) # 0 /\ ds[Ancestor(ds, ino, k)].pino = ROOT_INO

\* C10: resolve_dirent examines at most 32 dirents of the parent chain, one
\* for each iteration, returns a path only when one of these 32 is a child of
\* the root, and returns an error when the chain has a cycle or is longer.
C10_BoundedResolve ==
    /\ rd.examined <= RESOLVE_DEPTH
    /\ rd.i <= RESOLVE_DEPTH
    /\ rd.ret = "loop" => rd.examined = rd.i
    /\ rd.ret = "ok" => RootWithin(dirents, rd.node, RESOLVE_DEPTH)
    /\ (pc = "done" /\ ~RootWithin(dirents, rd.node, RESOLVE_DEPTH))
          => rd.ret \in {"unresolved", "cycle"}

\* C10 witness: a chain of more than 32 dirents below the root was climbed
\* for 32 iterations and the call returned the cycle error.
C10_Witness ==
    /\ pc = "done" /\ rd.ret = "cycle" /\ rd.examined = RESOLVE_DEPTH
    /\ RootWithin(dirents, rd.node, RESOLVE_DEPTH + 1)

\* the inode nodes of ino in the image, in image order
ImageFrags(ino) ==
    LET of(n) == n.kind = "inode" /\ n.ino = ino
    IN  SelectSeq(image.nodes, of)

\* images scan reads in full: little-endian, not cut, made of dirent and
\* inode nodes only, with bytes after the last node
FullyScanned ==
    /\ image.le /\ image.cut = 0
    /\ Len(image.nodes) >= 2
    /\ image.nodes[Len(image.nodes)] = Tail12
    /\ \A k \in 1..(Len(image.nodes) - 1) : image.nodes[k].kind \in {"dirent", "inode"}

\* the write_all calls of dump for the fragments of ino at offset off
WritesAt(ino, off) ==
    LET at(e) == e.ino = ino /\ e.frag.offset = off
    IN  SelectSeq(sink.log, at)

\* C11: when the image holds two inode nodes of one inode at the same logical
\* offset with different versions, in either image order, an extraction of
\* the file that succeeds has written that offset once, from the node of the
\* highest version, and nothing from a node of a lower version.
C11_HighestVersionOnce ==
    \A k \in 1..Len(visited) :
        LET v == visited[k]
            fs == ImageFrags(v.ino)
        IN  (/\ op = "dump" /\ v.ret = "ok" /\ FullyScanned
             /\ dirents[v.ino].ntype = DT_REG)
            => \A a, b \in 1..Len(fs) :
                  (fs[a].offset = fs[b].offset /\ fs[a].version < fs[b].version)
                  => /\ Len(WritesAt(v.ino, fs[a].offset)) = 1
                     /\ \A e \in 1..Len(sink.log) :
                           sink.log[e].ino = v.ino /\ sink.log[e].frag.offset = fs[a].offset
                             => /\ sink.log[e].frag.version # fs[a].version
                                /\ \A c \in 1..Len(fs) :
                                      fs[c].offset = fs[a].offset
                                        => fs[c].version <= sink.log[e].frag.version

\* C11, the order in which it holds: the newer node came first in the image,
\* the older one was discarded, and the extracted file holds the offset once,
\* from the newer node.
C11_NewerFirstHolds ==
    \A k \in 1..Len(visited) :
        LET v == visited[k]
            fs == ImageFrags(v.ino)
        IN  (/\ op = "dump" /\ v.ret = "ok" /\ FullyScanned
             /\ dirents[v.ino].ntype = DT_REG
             /\ Len(fs) = 2 /\ fs[1].offset = fs[2].offset
             /\ fs[1].version > fs[2].version)
            => /\ Len(WritesAt(v.ino, fs[1].offset)) = 1
               /\ WritesAt(v.ino, fs[1].offset)[1].frag.version = fs[1].version

\* C12: on every image of at least two bytes that starts with a magic, scan
\* ends with Ok or with a returned Err and never with a panic; an image of 2
\* to 11 bytes has no header read (the loop bound is not taken below zero, so
\* the loop is not entered and scan returns Ok); every header read lies inside
\* the image; and every payload range handed to scan_dirent or scan_inode,
\* from start + 12 to start + totlen, has start + 12 <= start + totlen <=
\* length, nodes with totlen from 1 to 11 included.
C12_ScanInBounds ==
    /\ pc # "panic" /\ result # "panic"
    /\ (Len(buffer) < HEADER_SIZE /\ pc # "scan") => (pc = "scanned" /\ idx = 0)
    /\ last # NoHdr => last.start + HEADER_SIZE <= Len(buffer)
    /\ (last.passed /\ last.nodetype \in {JFFS2_NODETYPE_DIRENT, JFFS2_NODETYPE_INODE})
          => /\ last.start + HEADER_SIZE <= last.start + last.totlen
             /\ last.start + last.totlen <= Len(buffer)

\* C12, the part that holds: on an image of at least 12 bytes every header
\* read lies inside the image and every payload range ends inside it.
C12_ReadsEndInside ==
    Len(buffer) >= HEADER_SIZE
        => /\ last # NoHdr => last.start + HEADER_SIZE <= Len(buffer)
           /\ last.passed => last.start + last.totlen <= Len(buffer)
           /\ pc = "panic" => (last.passed /\ last.totlen < HEADER_SIZE)

====
